---- MODULE Spec2Model ----
(***************************************************************************)
(* The resilient upstream call layer of the gateway: the circuit breaker   *)
(* and retry loop of upstream() (src/scripts/seed-events.js:142-284) and   *)
(* the fan-out of the /getEventsByUserId route (src/services/index.js).    *)
(*                                                                         *)
(* JavaScript runs one callback at a time: every action below is the code  *)
(* that runs between two suspension points (await) of one upstream() call. *)
(* Time is in milliseconds, as Date.now() gives it.                        *)
(***************************************************************************)
EXTENDS Integers, Sequences, FiniteSets, TLC

\* ---------------------------------------------------------------- constants
DEFAULT_TIMEOUT_MS == 2000
MAX_RETRIES == 2
BACKOFF_FACTOR == 2
FAILURE_WINDOW_MS == 30000
FAILURE_THRESHOLD == 3
OPEN_COOLDOWN_MS == 30000
HALF_OPEN_PROBE_INTERVAL_MS == 5000

\* ------------------------------------------------------------------- bounds
\* Number of times Date.now() is seen to advance in one run.
MaxTicks == 3
\* Number of upstream() calls made in one run.
MaxStarts == 5
\* Event lists up to this length are fanned out with every outcome and every
\* order of the responses.
MaxEvents == 3
\* runQueue is run on item lists up to this length ...
MaxItems == 4
\* ... with every concurrency from 1 up to this one.
MaxConcurrency == 2
\* Number of upstream() calls admitted after upstream has stopped failing.
MaxLateStarts == 3

\* The upstream() calls that can be in flight at once: two, which interleave
\* in every order at their awaits. (With {1, 2, 3} the model has 5.6 million
\* states at these bounds; C1, C5, C7, C8 and C9 hold there too.)
Calls == {1, 2}

VARIABLES
    now,            \* Date.now()
    state,          \* "CLOSED" | "OPEN" | "HALF_OPEN"
    failureTimes,   \* sequence of failure timestamps
    openUntil,
    nextProbeAt,
    probeInFlight,
    pc,             \* per call: where the call is suspended
    attempt,        \* per call: loop variable of the retry loop
    deadline,       \* per call: when the pending timer (abort or sleep) fires
    transient,      \* per call: status >= 500 of the response being read
    probe,          \* per call: admitted through the HALF_OPEN gate (history)
    reported,       \* per call: outcomes it has reported to the breaker (history)
    started,        \* number of upstream() calls made so far (history)
    ticks,          \* number of advances of the clock so far (history)
    last,           \* what the step just taken surfaced to the caller of upstream()
    hpc,            \* /getEventsByUserId handler: where it is suspended
    events,         \* user.events: the user's event identifiers
    mode,           \* which branch of the handler dispatched the fan-out
    fan,            \* the upstream() calls of the fan-out, in dispatch order
    reply,          \* what the handler returned or threw
    healed,         \* whether upstream has stopped failing, and since when (history)
    qpc,            \* runQueue: "idle" | "running" | "resolved"
    items,          \* runQueue: the items
    concurrency,    \* runQueue: the concurrency argument
    inFlight,
    idx,
    ok,
    fail,
    results,        \* results[i]: "empty" | "value" | "error"
    worker,         \* per item: the promise chain of its worker invocation
    invoked,        \* per item: number of worker invocations (history)
    resolution      \* what runQueue's promise was resolved with

breakerVars == <<state, failureTimes, openUntil, nextProbeAt, probeInFlight>>
callVars == <<pc, attempt, deadline, transient, probe, reported>>
upstreamVars == <<now, state, failureTimes, openUntil, nextProbeAt, probeInFlight,
                  pc, attempt, deadline, transient, probe, reported, started, ticks, last>>
handlerVars == <<hpc, events, mode, fan, reply>>
queueVars == <<qpc, items, concurrency, inFlight, idx, ok, fail, results, worker,
               invoked, resolution>>
vars == <<now, state, failureTimes, openUntil, nextProbeAt, probeInFlight,
          pc, attempt, deadline, transient, probe, reported, started, ticks, last,
          hpc, events, mode, fan, reply, healed,
          qpc, items, concurrency, inFlight, idx, ok, fail, results, worker,
          invoked, resolution>>

\* The module-level breaker variables as one value.
Breaker ==
    [state |-> state, failureTimes |-> failureTimes, openUntil |-> openUntil,
     nextProbeAt |-> nextProbeAt, probeInFlight |-> probeInFlight]

SetBreaker(b) ==
    /\ state' = b.state
    /\ failureTimes' = b.failureTimes
    /\ openUntil' = b.openUntil
    /\ nextProbeAt' = b.nextProbeAt
    /\ probeInFlight' = b.probeInFlight

\* Mutant of CeilSeconds: rounds down.
CeilSeconds_Floor(x) == x \div 1000

\* Math.ceil(x / 1000) on an integer x of either sign.
CeilSeconds(x) == -((-x) \div 1000)

\* Mutant of pruneFailures: every timestamp is kept.
pruneFailures_KeepsAll(b, ts) == b

\* Mutant of pruneFailures: every timestamp is dropped.
pruneFailures_DropsAll(b, ts) == [b EXCEPT !.failureTimes = <<>>]

pruneFailures(b, ts) ==
    [b EXCEPT !.failureTimes =
        SelectSeq(b.failureTimes, LAMBDA t : t >= ts - FAILURE_WINDOW_MS)]

\* Mutant of recordFailure: trips one failure late.
recordFailure_LateTrip(b, ts) ==
    LET p == Append(pruneFailures(b, ts).failureTimes, ts)
    IN  IF b.state = "CLOSED" /\ Len(p) > FAILURE_THRESHOLD
        THEN [b EXCEPT !.failureTimes = p, !.state = "OPEN",
                       !.openUntil = ts + OPEN_COOLDOWN_MS]
        ELSE [b EXCEPT !.failureTimes = p]

recordFailure(b, ts) ==
    LET p == Append(pruneFailures(b, ts).failureTimes, ts)
    IN  IF b.state = "CLOSED" /\ Len(p) >= FAILURE_THRESHOLD
        THEN [b EXCEPT !.failureTimes = p, !.state = "OPEN",
                       !.openUntil = ts + OPEN_COOLDOWN_MS]
        ELSE [b EXCEPT !.failureTimes = p]

\* Mutant of recordSuccess: the failure window is kept.
recordSuccess_KeepsWindow(b) ==
    [b EXCEPT !.state = "CLOSED", !.openUntil = 0,
              !.nextProbeAt = 0, !.probeInFlight = FALSE]

\* Mutant of recordSuccess: the probe flag is kept.
recordSuccess_KeepsFlag(b) ==
    [b EXCEPT !.failureTimes = <<>>, !.state = "CLOSED", !.openUntil = 0,
              !.nextProbeAt = 0]

\* Mutant of recordSuccess: the breaker stays in its state.
recordSuccess_StaysHalfOpen(b) ==
    [b EXCEPT !.failureTimes = <<>>, !.openUntil = 0,
              !.nextProbeAt = 0, !.probeInFlight = FALSE]

recordSuccess(b) ==
    [b EXCEPT !.failureTimes = <<>>, !.state = "CLOSED", !.openUntil = 0,
              !.nextProbeAt = 0, !.probeInFlight = FALSE]

\* Mutant of OpenGate: schedules the first probe one interval ahead.
OpenGate_DeferredProbe(b, ts) ==
    IF b.state = "OPEN"
    THEN IF ts >= b.openUntil
         THEN [b |-> [b EXCEPT !.state = "HALF_OPEN",
                               !.nextProbeAt = ts + HALF_OPEN_PROBE_INTERVAL_MS],
               reject |-> FALSE, retryAfter |-> 0]
         ELSE [b |-> b, reject |-> TRUE,
               retryAfter |-> CeilSeconds(b.openUntil - ts)]
    ELSE [b |-> b, reject |-> FALSE, retryAfter |-> 0]

\* Lines 193-203: the OPEN gate. Gives the breaker after it and whether the
\* call is rejected there.
OpenGate(b, ts) ==
    IF b.state = "OPEN"
    THEN IF ts >= b.openUntil
         THEN [b |-> [b EXCEPT !.state = "HALF_OPEN", !.nextProbeAt = ts],
               reject |-> FALSE, retryAfter |-> 0]
         ELSE [b |-> b, reject |-> TRUE,
               retryAfter |-> CeilSeconds(b.openUntil - ts)]
    ELSE [b |-> b, reject |-> FALSE, retryAfter |-> 0]

\* Lines 205-215: the HALF_OPEN gate.
HalfOpenGate(b, ts) ==
    IF b.state = "HALF_OPEN"
    THEN IF b.probeInFlight \/ ts < b.nextProbeAt
         THEN [b |-> b, reject |-> TRUE, probe |-> FALSE,
               retryAfter |-> CeilSeconds(b.nextProbeAt - ts)]
         ELSE [b |-> [b EXCEPT !.probeInFlight = TRUE,
                               !.nextProbeAt = ts + HALF_OPEN_PROBE_INTERVAL_MS],
               reject |-> FALSE, probe |-> TRUE, retryAfter |-> 0]
    ELSE [b |-> b, reject |-> FALSE, probe |-> FALSE, retryAfter |-> 0]

\* Lines 276-280: the finally block of one loop iteration.
Finally(b) ==
    IF b.state = "HALF_OPEN" THEN [b EXCEPT !.probeInFlight = FALSE] ELSE b

\* Line 272.
RECURSIVE Pow(_, _)
Pow(x, n) == IF n = 0 THEN 1 ELSE x * Pow(x, n - 1)

\* Mutant of BackoffDelay: the exponent is off by one.
BackoffDelay_OffByOne(a) == 100 * Pow(BACKOFF_FACTOR, a)

BackoffDelay(a) == 100 * Pow(BACKOFF_FACTOR, a - 1)

\* runQueue's promise is still pending.
NoResolution == [ok |-> -1, fail |-> -1, results |-> <<>>]

\* Upstream still fails. Once it has stopped: the state of the breaker at
\* that time, and the number of calls admitted since.
NotHealed == [from |-> "no", admitted |-> 0]

NoReport == [success |-> 0, failure |-> 0]

NoResult == [kind |-> "none", attempts |-> 0, retryAfter |-> 0, reported |-> NoReport]

Init ==
    /\ now = 0
    /\ state = "CLOSED"
    /\ failureTimes = <<>>
    /\ openUntil = 0
    /\ nextProbeAt = 0
    /\ probeInFlight = FALSE
    /\ pc = [c \in Calls |-> "idle"]
    /\ attempt = [c \in Calls |-> 0]
    /\ deadline = [c \in Calls |-> 0]
    /\ transient = [c \in Calls |-> FALSE]
    /\ probe = [c \in Calls |-> FALSE]
    /\ reported = [c \in Calls |-> NoReport]
    /\ started = 0
    /\ ticks = 0
    /\ last = NoResult
    /\ hpc = "start"
    /\ events = <<>>
    /\ mode = "none"
    /\ fan = <<>>
    /\ reply = [kind |-> "none", body |-> <<>>]
    /\ healed = NotHealed
    /\ qpc = "idle"
    /\ items = <<>>
    /\ concurrency = 1
    /\ inFlight = 0
    /\ idx = 0
    /\ ok = 0
    /\ fail = 0
    /\ results = <<>>
    /\ worker = <<>>
    /\ invoked = <<>>
    /\ resolution = NoResolution

\* A call has a timer running: the abort timer of a fetch, or a backoff sleep.
TimerPending(c) == pc[c] \in {"fetch", "sleep"}

\* The call ends: its slot is free for the next upstream() call.
EndCall(c, kind, ra, rep) ==
    /\ pc' = [pc EXCEPT ![c] = "idle"]
    /\ last' = [kind |-> kind, attempts |-> attempt[c], retryAfter |-> ra,
                reported |-> rep]
    /\ reported' = [reported EXCEPT ![c] = NoReport]
    /\ attempt' = [attempt EXCEPT ![c] = 0]
    /\ deadline' = [deadline EXCEPT ![c] = 0]
    /\ transient' = [transient EXCEPT ![c] = FALSE]
    /\ probe' = [probe EXCEPT ![c] = FALSE]

\* Lines 219-223: one loop iteration starts a fetch with its abort timer.
StartAttempt(c, a) ==
    /\ pc' = [pc EXCEPT ![c] = "fetch"]
    /\ attempt' = [attempt EXCEPT ![c] = a]
    /\ deadline' = [deadline EXCEPT ![c] = now + DEFAULT_TIMEOUT_MS]
    /\ transient' = [transient EXCEPT ![c] = FALSE]

\* Time passes. Timers fire when due: time does not pass a pending deadline.
Advance(d) ==
    /\ d > 0
    /\ \A c \in Calls : TimerPending(c) => now + d <= deadline[c]
    /\ now' = now + d
    /\ last' = NoResult
    /\ UNCHANGED <<breakerVars, callVars>>

Tick(d) ==
    /\ ticks < MaxTicks
    /\ ticks' = ticks + 1
    /\ Advance(d)
    /\ UNCHANGED <<started, handlerVars, healed, queueVars>>

TickChoices ==
    {HALF_OPEN_PROBE_INTERVAL_MS, OPEN_COOLDOWN_MS}
        \cup {deadline[c] - now : c \in {x \in Calls : TimerPending(x)}}

\* upstream() is called: lines 190-223, up to the first await. The calls are
\* interchangeable: a new call takes the lowest free slot.
Enter(c) ==
    /\ pc[c] = "idle"
    /\ \A x \in Calls : x < c => pc[x] # "idle"
    /\ LET g1 == OpenGate(Breaker, now)
           g2 == HalfOpenGate(g1.b, now)
       IN  IF g1.reject
           THEN /\ SetBreaker(g1.b)
                /\ EndCall(c, "rejectedOpen", g1.retryAfter, reported[c])
           ELSE IF g2.reject
           THEN /\ SetBreaker(g2.b)
                /\ EndCall(c, "rejectedHalfOpen", g2.retryAfter, reported[c])
           ELSE /\ SetBreaker(g2.b)
                /\ StartAttempt(c, 1)
                /\ probe' = [probe EXCEPT ![c] = g2.probe]
                /\ last' = NoResult
                /\ UNCHANGED reported

Call(c) ==
    /\ started < MaxStarts
    /\ started' = started + 1
    /\ Enter(c)
    /\ UNCHANGED <<now, ticks, handlerVars, healed, queueVars>>

\* Mutant of Catch: allows one retry more.
Catch_ExtraRetry(c, isTransient) ==
    IF ~isTransient \/ attempt[c] > MAX_RETRIES + 1
    THEN LET b1 == recordFailure(Breaker, now)
             b2 == IF b1.state = "HALF_OPEN"
                   THEN [b1 EXCEPT !.state = "OPEN", !.probeInFlight = FALSE,
                                   !.openUntil = now + OPEN_COOLDOWN_MS]
                   ELSE b1
         IN  /\ SetBreaker(Finally(b2))
             /\ EndCall(c, "unavailable", CeilSeconds(OPEN_COOLDOWN_MS),
                        [reported[c] EXCEPT !.failure = @ + 1])
    ELSE /\ pc' = [pc EXCEPT ![c] = "sleep"]
         /\ deadline' = [deadline EXCEPT ![c] = now + BackoffDelay(attempt[c])]
         /\ transient' = [transient EXCEPT ![c] = FALSE]
         /\ last' = NoResult
         /\ UNCHANGED <<breakerVars, attempt, probe, reported>>

\* Lines 247-275: the catch block of one loop iteration, and the finally
\* block that follows a throw out of it.
Catch(c, isTransient) ==
    IF ~isTransient \/ attempt[c] > MAX_RETRIES
    THEN LET b1 == recordFailure(Breaker, now)
             b2 == IF b1.state = "HALF_OPEN"
                   THEN [b1 EXCEPT !.state = "OPEN", !.probeInFlight = FALSE,
                                   !.openUntil = now + OPEN_COOLDOWN_MS]
                   ELSE b1
         IN  /\ SetBreaker(Finally(b2))
             /\ EndCall(c, "unavailable", CeilSeconds(OPEN_COOLDOWN_MS),
                        [reported[c] EXCEPT !.failure = @ + 1])
    ELSE /\ pc' = [pc EXCEPT ![c] = "sleep"]
         /\ deadline' = [deadline EXCEPT ![c] = now + BackoffDelay(attempt[c])]
         /\ transient' = [transient EXCEPT ![c] = FALSE]
         /\ last' = NoResult
         /\ UNCHANGED <<breakerVars, attempt, probe, reported>>

\* The fetch resolves with res.ok: lines 229-245, up to await res.json().
FetchOk(c) ==
    /\ pc[c] = "fetch"
    /\ now <= deadline[c]
    /\ SetBreaker(IF state = "HALF_OPEN" THEN recordSuccess(Breaker)
                  ELSE pruneFailures(Breaker, now))
    /\ pc' = [pc EXCEPT ![c] = "json"]
    /\ deadline' = [deadline EXCEPT ![c] = 0]
    /\ reported' = [reported EXCEPT ![c].success = @ + 1]
    /\ last' = NoResult
    /\ UNCHANGED <<now, attempt, transient, probe, started, ticks, handlerVars, healed, queueVars>>

\* The fetch resolves with a status outside 2xx: lines 229-232, up to
\* await res.text().
FetchStatus(c, isTransient) ==
    /\ pc[c] = "fetch"
    /\ now <= deadline[c]
    /\ pc' = [pc EXCEPT ![c] = "text"]
    /\ deadline' = [deadline EXCEPT ![c] = 0]
    /\ transient' = [transient EXCEPT ![c] = isTransient]
    /\ last' = NoResult
    /\ UNCHANGED <<now, breakerVars, attempt, probe, reported, started, ticks, handlerVars, healed, queueVars>>

\* The abort timer fires: fetch rejects with an AbortError.
FetchAbort(c) ==
    /\ pc[c] = "fetch"
    /\ now >= deadline[c]
    /\ Catch(c, TRUE)
    /\ UNCHANGED <<now, started, ticks, handlerVars, healed, queueVars>>

\* fetch rejects for another reason (connection refused, ...).
FetchError(c) ==
    /\ pc[c] = "fetch"
    /\ now <= deadline[c]
    /\ Catch(c, FALSE)
    /\ UNCHANGED <<now, started, ticks, handlerVars, healed, queueVars>>

\* res.text() settles: lines 233-236 throw into the catch block.
TextDone(c) ==
    /\ pc[c] = "text"
    /\ Catch(c, transient[c])
    /\ UNCHANGED <<now, started, ticks, handlerVars, healed, queueVars>>

\* res.json() resolves: the finally block runs and the payload is returned.
JsonOk(c) ==
    /\ pc[c] = "json"
    /\ SetBreaker(Finally(Breaker))
    /\ EndCall(c, "returned", 0, reported[c])
    /\ UNCHANGED <<now, started, ticks, handlerVars, healed, queueVars>>

\* res.json() rejects (the body is no JSON): a SyntaxError in the catch block.
JsonError(c) ==
    /\ pc[c] = "json"
    /\ Catch(c, FALSE)
    /\ UNCHANGED <<now, started, ticks, handlerVars, healed, queueVars>>

\* The backoff sleep ends: the finally block, then the next loop iteration.
Wake(c) ==
    /\ pc[c] = "sleep"
    /\ now >= deadline[c]
    /\ SetBreaker(Finally(Breaker))
    /\ StartAttempt(c, attempt[c] + 1)
    /\ last' = NoResult
    /\ UNCHANGED <<now, probe, reported, started, ticks, handlerVars, healed, queueVars>>

Next ==
    \/ \E d \in TickChoices : Tick(d)
    \/ \E c \in Calls : Call(c)
    \/ \E c \in Calls : FetchOk(c)
    \/ \E c \in Calls : \E t \in BOOLEAN : FetchStatus(c, t)
    \/ \E c \in Calls : FetchAbort(c)
    \/ \E c \in Calls : FetchError(c)
    \/ \E c \in Calls : TextDone(c)
    \/ \E c \in Calls : JsonOk(c)
    \/ \E c \in Calls : JsonError(c)
    \/ \E c \in Calls : Wake(c)

Spec == Init /\ [][Next]_vars

\* ---------------------------------------------------- upstream recovers
\* The breaker runs as in Spec until upstream stops failing (Heal) while the
\* breaker is OPEN or HALF_OPEN; the counters of calls and clock advances
\* before that are not kept. From then on every fetch resolves with
\* res.ok and a JSON body, calls keep being made and time keeps passing.
\* Responses that had arrived before are still read to their end.

Heal ==
    /\ healed = NotHealed
    /\ state \in {"OPEN", "HALF_OPEN"}
    /\ healed' = [from |-> state, admitted |-> 0]
    /\ last' = NoResult
    /\ started' = 0
    /\ ticks' = 0
    /\ UNCHANGED <<now, breakerVars, callVars, handlerVars, queueVars>>

\* The latest time the breaker or a call waits for.
Horizon ==
    LET waits == {openUntil, nextProbeAt}
                    \cup {deadline[c] : c \in {x \in Calls : TimerPending(x)}}
    IN  CHOOSE t \in waits : \A u \in waits : u <= t

\* Time passes after the healing, as long as something waits for it.
LateTick(d) ==
    /\ healed # NotHealed
    /\ now < Horizon
    /\ Advance(d)
    /\ UNCHANGED <<started, ticks, handlerVars, healed, queueVars>>

\* upstream() is called after the healing. Rejected calls may go on for
\* ever; the admitted ones are counted.
LateCall(c) ==
    /\ healed # NotHealed
    /\ Enter(c)
    /\ healed' = [healed EXCEPT !.admitted = IF pc'[c] = "fetch" THEN @ + 1 ELSE @]
    /\ healed'.admitted <= MaxLateStarts
    /\ UNCHANGED <<now, started, ticks, handlerVars, queueVars>>

\* What a call in flight does once upstream answers every fetch with 200.
Healthy(c) == FetchOk(c) \/ JsonOk(c) \/ TextDone(c) \/ Wake(c)

\* Before the healing the breaker runs as in Spec, one call and one clock
\* advance short of Spec's bounds.
Faulty ==
    /\ healed = NotHealed
    /\ Next
    /\ ticks' < MaxTicks
    /\ started' < MaxStarts

RecoveryNext ==
    \/ Faulty
    \/ Heal
    \/ \E d \in TickChoices : LateTick(d)
    \/ \E c \in Calls : LateCall(c)
    \/ \E c \in Calls : healed # NotHealed /\ Healthy(c)

\* Timers fire and responses arrive (the event loop runs them), time passes
\* and calls keep arriving.
RecoverySpec ==
    /\ Init
    /\ [][RecoveryNext]_vars
    /\ WF_vars(\E d \in TickChoices : LateTick(d))
    /\ WF_vars(\E c \in Calls : LateCall(c))
    /\ \A c \in Calls : WF_vars(healed # NotHealed /\ Healthy(c))

\* ------------------------------------------- /getEventsByUserId (index.js)
\* In the handler upstream() is a call that is pending, then fulfilled with
\* the parsed body or rejected.

\* Line 35.
smallEventSize == 50

\* The lengths of user.events the model draws from: every length up to
\* MaxEvents, and the lengths around the threshold and the 120 of the spec.
EventCounts ==
    (0..MaxEvents) \cup {smallEventSize, smallEventSize + 1,
                         2 * smallEventSize, 2 * smallEventSize + 20}

\* The identifiers of a user with n events.
EventIds(n) == [i \in 1..n |-> i]

\* What upstream answers for one event.
Event(eid) == [id |-> eid]

Min(a, b) == IF a < b THEN a ELSE b

\* Mutant of Chunks: the loop stops before a last, shorter slice.
RECURSIVE Chunks_DropsPartial(_, _)
Chunks_DropsPartial(ids, size) ==
    IF Len(ids) < size THEN <<>>
    ELSE <<SubSeq(ids, 1, size)>>
            \o Chunks_DropsPartial(SubSeq(ids, size + 1, Len(ids)), size)

\* Lines 42-46: the slices user.events.slice(i, i + smallEventSize).
RECURSIVE Chunks(_, _)
Chunks(ids, size) ==
    IF Len(ids) = 0 THEN <<>>
    ELSE <<SubSeq(ids, 1, Min(size, Len(ids)))>>
            \o Chunks(SubSeq(ids, Min(size, Len(ids)) + 1, Len(ids)), size)

\* Line 40: the branch the handler takes.
Batched(ids) == Len(ids) > smallEventSize

\* Lines 48-51 and 58-60: the upstream() calls the handler dispatches, each
\* with the identifiers its path names.
Dispatch(ids) ==
    IF Batched(ids)
    THEN [k \in DOMAIN Chunks(ids, smallEventSize) |->
              [ids |-> Chunks(ids, smallEventSize)[k], status |-> "pending", value |-> <<>>]]
    ELSE [k \in DOMAIN ids |->
              [ids |-> <<ids[k]>>, status |-> "pending", value |-> <<>>]]

RECURSIVE Flat(_)
Flat(ss) == IF Len(ss) = 0 THEN <<>> ELSE Head(ss) \o Flat(Tail(ss))

\* JSON null, which upstream answers for an identifier it has no event for.
Null == [id |-> 0]

Truthy(v) == v # Null

\* Lines 62-64: the fulfilled results, in dispatch order.
Fulfilled(f) ==
    LET kept == SelectSeq(f, LAMBDA r : r.status = "fulfilled")
    IN  [k \in DOMAIN kept |-> kept[k].value]

\* Line 54.
FlatTruthy(f) == SelectSeq(Flat([k \in DOMAIN f |-> f[k].value]), Truthy)

Pending(f) == {k \in DOMAIN f : f[k].status = "pending"}

\* A response arrives for a pending call. The responses overtake each other
\* within MaxEvents calls of the oldest pending one.
MaySettle(k) ==
    /\ k \in Pending(fan)
    /\ \A j \in Pending(fan) : k < j + MaxEvents

\* Line 37: the request arrives and the handler awaits the user.
Request ==
    /\ hpc = "start"
    /\ hpc' = "user"
    /\ UNCHANGED <<events, mode, fan, reply, upstreamVars, healed, queueVars>>

\* Line 37 throws: upstream() rejected the user lookup.
UserRejected ==
    /\ hpc = "user"
    /\ hpc' = "done"
    /\ reply' = [kind |-> "error", body |-> <<>>]
    /\ UNCHANGED <<events, mode, fan, upstreamVars, healed, queueVars>>

\* Lines 37-60: the user arrives with n events; the handler returns [] or
\* dispatches the fan-out and awaits it.
UserResolved(n) ==
    /\ hpc = "user"
    /\ events' = EventIds(n)
    /\ IF n = 0
       THEN /\ hpc' = "done"
            /\ reply' = [kind |-> "ok", body |-> <<>>]
            /\ UNCHANGED <<mode, fan>>
       ELSE /\ hpc' = "fanout"
            /\ mode' = IF Batched(EventIds(n)) THEN "batch" ELSE "item"
            /\ fan' = Dispatch(EventIds(n))
            /\ UNCHANGED reply
    /\ UNCHANGED <<upstreamVars, healed, queueVars>>

\* Mutant of Continue: the per-item branch awaits Promise.all too.
Continue_AllOrNothing(f) ==
    IF hpc # "fanout" THEN UNCHANGED <<hpc, reply>>
    ELSE IF \E k \in DOMAIN f : f[k].status = "rejected"
    THEN hpc' = "done" /\ reply' = [kind |-> "error", body |-> <<>>]
    ELSE IF Pending(f) = {}
    THEN hpc' = "done"
         /\ reply' = [kind |-> "ok",
                      body |-> IF mode = "batch" THEN FlatTruthy(f) ELSE Fulfilled(f)]
    ELSE UNCHANGED <<hpc, reply>>

\* The handler's continuation after one more call of the fan-out settled:
\* Promise.all (line 48) rejects with the first rejection and resolves when
\* all are fulfilled; Promise.allSettled (line 58) resolves when none is
\* pending.
Continue(f) ==
    IF hpc # "fanout" THEN UNCHANGED <<hpc, reply>>
    ELSE IF mode = "batch"
    THEN IF \E k \in DOMAIN f : f[k].status = "rejected"
         THEN hpc' = "done" /\ reply' = [kind |-> "error", body |-> <<>>]
         ELSE IF Pending(f) = {}
         THEN hpc' = "done" /\ reply' = [kind |-> "ok", body |-> FlatTruthy(f)]
         ELSE UNCHANGED <<hpc, reply>>
    ELSE IF Pending(f) = {}
         THEN hpc' = "done" /\ reply' = [kind |-> "ok", body |-> Fulfilled(f)]
         ELSE UNCHANGED <<hpc, reply>>

\* What upstream answers for the identifiers of one call: the event of a
\* per-item call; for a batch the events in order, null for the identifiers
\* in `missing`.
Body(ids, missing) ==
    IF mode = "item" THEN Event(ids[1])
    ELSE [i \in DOMAIN ids |-> IF ids[i] \in missing THEN Null ELSE Event(ids[i])]

\* One upstream() call of the fan-out is fulfilled.
Fulfil(k, missing) ==
    /\ MaySettle(k)
    /\ LET f == [fan EXCEPT ![k].status = "fulfilled",
                            ![k].value = Body(fan[k].ids, missing)]
       IN  fan' = f /\ Continue(f)
    /\ UNCHANGED <<events, mode, upstreamVars, healed, queueVars>>

\* One upstream() call of the fan-out is rejected. Only the first MaxEvents
\* calls of a fan-out are let fail.
Reject(k) ==
    /\ MaySettle(k)
    /\ k <= MaxEvents
    /\ LET f == [fan EXCEPT ![k].status = "rejected"]
       IN  fan' = f /\ Continue(f)
    /\ UNCHANGED <<events, mode, upstreamVars, healed, queueVars>>

HandlerNext ==
    \/ Request
    \/ UserRejected
    \/ \E n \in EventCounts : UserResolved(n)
    \/ \E k \in DOMAIN fan : \E missing \in SUBSET (1..1) : Fulfil(k, missing)
    \/ \E k \in DOMAIN fan : Reject(k)

HandlerSpec == Init /\ [][HandlerNext]_vars

\* ------------------------------------------------ runQueue (seed-events.js)
\* worker[i] is the chain worker(item, i).then(..).catch(..).finally(..) of
\* item i: "new" before the invocation, "pending" until the worker's promise
\* settles, then one reaction after the other, each a step of its own.

NotInvoked == [phase |-> "new", settled |-> "none"]

\* The local variables of one runQueue call as one value.
Queue ==
    [qpc |-> qpc, items |-> items, concurrency |-> concurrency,
     inFlight |-> inFlight, idx |-> idx, ok |-> ok, fail |-> fail,
     results |-> results, worker |-> worker, invoked |-> invoked,
     resolution |-> resolution]

SetQueue(q) ==
    /\ qpc' = q.qpc
    /\ items' = q.items
    /\ concurrency' = q.concurrency
    /\ inFlight' = q.inFlight
    /\ idx' = q.idx
    /\ ok' = q.ok
    /\ fail' = q.fail
    /\ results' = q.results
    /\ worker' = q.worker
    /\ invoked' = q.invoked
    /\ resolution' = q.resolution

\* Mutant of Fill: admits one invocation more than concurrency.
RECURSIVE Fill_OneTooMany(_)
Fill_OneTooMany(q) ==
    IF q.inFlight <= q.concurrency /\ q.idx < Len(q.items)
    THEN Fill_OneTooMany([q EXCEPT !.idx = @ + 1,
                                   !.inFlight = @ + 1,
                                   !.worker[q.idx + 1] = [phase |-> "pending", settled |-> "none"],
                                   !.invoked[q.idx + 1] = @ + 1])
    ELSE q

\* Lines 90-98: the while loop of next(). idx counts from 0, the items of the
\* model from 1.
RECURSIVE Fill(_)
Fill(q) ==
    IF q.inFlight < q.concurrency /\ q.idx < Len(q.items)
    THEN Fill([q EXCEPT !.idx = @ + 1,
                        !.inFlight = @ + 1,
                        !.worker[q.idx + 1] = [phase |-> "pending", settled |-> "none"],
                        !.invoked[q.idx + 1] = @ + 1])
    ELSE q

\* resolve({ ok, fail, results }): a promise is resolved once, later calls
\* of resolve change nothing.
Resolve(q) ==
    [q EXCEPT !.qpc = "resolved",
              !.resolution = IF q.qpc = "resolved" THEN @
                             ELSE [ok |-> q.ok, fail |-> q.fail, results |-> q.results]]

\* Mutant of next: resolves as soon as every item is dispatched.
next_ResolvesEarly(q) ==
    IF q.idx >= Len(q.items) THEN Resolve(q) ELSE Fill(q)

\* Lines 86-99.
next(q) ==
    IF q.idx >= Len(q.items) /\ q.inFlight = 0 THEN Resolve(q) ELSE Fill(q)

\* Lines 82-101: runQueue is called with n items and concurrency k; the
\* executor runs next() once.
RunQueue(n, k) ==
    /\ qpc = "idle"
    /\ SetQueue(next([qpc |-> "running",
                      items |-> [i \in 1..n |-> i],
                      concurrency |-> k,
                      inFlight |-> 0, idx |-> 0, ok |-> 0, fail |-> 0,
                      results |-> [i \in 1..n |-> "empty"],
                      worker |-> [i \in 1..n |-> NotInvoked],
                      invoked |-> [i \in 1..n |-> 0],
                      resolution |-> NoResolution]))
    /\ UNCHANGED <<upstreamVars, handlerVars, healed>>

\* The promise of worker(item, i) settles.
Settle(i, outcome) ==
    /\ worker[i].phase = "pending"
    /\ worker' = [worker EXCEPT ![i] = [phase |-> "then", settled |-> outcome]]
    /\ UNCHANGED <<qpc, items, concurrency, inFlight, idx, ok, fail, results,
                   invoked, resolution, upstreamVars, handlerVars, healed>>

\* Line 94: the .then reaction.
OnThen(i) ==
    /\ worker[i].phase = "then"
    /\ worker' = [worker EXCEPT ![i].phase = "catch"]
    /\ IF worker[i].settled = "fulfilled"
       THEN results' = [results EXCEPT ![i] = "value"] /\ ok' = ok + 1
       ELSE UNCHANGED <<results, ok>>
    /\ UNCHANGED <<qpc, items, concurrency, inFlight, idx, fail, invoked,
                   resolution, upstreamVars, handlerVars, healed>>

\* Line 95: the .catch reaction.
OnCatch(i) ==
    /\ worker[i].phase = "catch"
    /\ worker' = [worker EXCEPT ![i].phase = "finally"]
    /\ IF worker[i].settled = "rejected"
       THEN results' = [results EXCEPT ![i] = "error"] /\ fail' = fail + 1
       ELSE UNCHANGED <<results, fail>>
    /\ UNCHANGED <<qpc, items, concurrency, inFlight, idx, ok, invoked,
                   resolution, upstreamVars, handlerVars, healed>>

\* Line 96: the .finally reaction.
OnFinally(i) ==
    /\ worker[i].phase = "finally"
    /\ SetQueue(next([Queue EXCEPT !.inFlight = @ - 1, !.worker[i].phase = "done"]))
    /\ UNCHANGED <<upstreamVars, handlerVars, healed>>

\* The steps of a running queue.
QueueRun ==
    \/ \E i \in DOMAIN worker : \E outcome \in {"fulfilled", "rejected"} : Settle(i, outcome)
    \/ \E i \in DOMAIN worker : OnThen(i)
    \/ \E i \in DOMAIN worker : OnCatch(i)
    \/ \E i \in DOMAIN worker : OnFinally(i)

QueueNext ==
    \/ \E n \in 0..MaxItems : \E k \in 1..MaxConcurrency : RunQueue(n, k)
    \/ QueueRun

\* Every worker's promise settles and the job queue runs every reaction.
QueueSpec == Init /\ [][QueueNext]_vars /\ WF_vars(QueueRun)

\* ------------------------------------------------------------ step shapes
\* An upstream() call is made in this step.
Starts == started' = started + 1

\* Call c passes both gates in this step and starts its first fetch.
Admitted(c) == pc[c] = "idle" /\ pc'[c] = "fetch"

\* Call c is in flight and has not yet had its outcome.
Outstanding(c) == pc[c] \in {"fetch", "text", "sleep"}

\* Call c reports its success to the breaker in this step (lines 239-243).
ReportsSuccess(c) == pc[c] = "fetch" /\ pc'[c] = "json"

\* Call c reports its final failure to the breaker in this step (line 258).
ReportsFailure(c) == pc[c] # "idle" /\ pc'[c] = "idle" /\ last'.kind = "unavailable"

\* Call c returns its payload in this step.
Returns(c) == pc[c] = "json" /\ pc'[c] = "idle" /\ last'.kind = "returned"

\* The failure timestamps of ft that lie in the window that ends at ts.
InWindow(ft, ts) == {i \in DOMAIN ft : ft[i] >= ts - FAILURE_WINDOW_MS}

\* The least number of whole seconds that covers x milliseconds, x > 0.
SecondsCovering(x) == CHOOSE n \in 1..(x + 1) : n * 1000 >= x /\ (n - 1) * 1000 < x

\* ------------------------------------------------------------------ claims

\* C1: the failure that brings the failures in the window to FAILURE_THRESHOLD
\* while the breaker is CLOSED opens it with openUntil = (time of that
\* failure) + OPEN_COOLDOWN_MS; every call made while OPEN before openUntil is
\* rejected; the breaker stays OPEN, with the same openUntil, until a step
\* taken at a time >= openUntil.
C1_TripsAndRejects ==
    [][ /\ \A c \in Calls :
              (/\ ReportsFailure(c)
               /\ state = "CLOSED"
               /\ Cardinality(InWindow(failureTimes, now)) >= FAILURE_THRESHOLD - 1)
              => (state' = "OPEN" /\ openUntil' = now + OPEN_COOLDOWN_MS)
        /\ (Starts /\ state = "OPEN" /\ now < openUntil)
              => (last'.kind = "rejectedOpen" /\ pc' = pc)
        /\ (state = "OPEN" /\ now < openUntil)
              => (state' = "OPEN" /\ openUntil' = openUntil) ]_vars

\* C1 witness: the breaker has tripped and has just rejected a call.
C1_Witness ==
    /\ state = "OPEN"
    /\ last.kind = "rejectedOpen"
    /\ Len(failureTimes) >= FAILURE_THRESHOLD
    /\ now < openUntil

\* C2: no call is admitted as the half-open probe while a call admitted as
\* the probe before it is still outstanding (awaiting its fetch, reading an
\* error body, or sleeping between attempts).
C2_SingleProbe ==
    Cardinality({c \in Calls : probe[c] /\ Outstanding(c)}) <= 1

\* C3: the success of the call admitted as the probe leaves the breaker
\* CLOSED with an empty failure window, openUntil = 0, nextProbeAt = 0 and
\* probeInFlight = FALSE; its final failure leaves the breaker OPEN with
\* openUntil = (time of the failure) + OPEN_COOLDOWN_MS and probeInFlight = FALSE.
C3_ProbeOutcome ==
    [][ \A c \in Calls :
          /\ (probe[c] /\ ReportsSuccess(c))
                => /\ state' = "CLOSED"
                   /\ failureTimes' = <<>>
                   /\ openUntil' = 0
                   /\ nextProbeAt' = 0
                   /\ probeInFlight' = FALSE
          /\ (probe[c] /\ reported[c].success = 0 /\ ReportsFailure(c))
                => /\ state' = "OPEN"
                   /\ openUntil' = now + OPEN_COOLDOWN_MS
                   /\ probeInFlight' = FALSE ]_vars

\* C4: while the breaker is HALF_OPEN, the completion (success report,
\* final failure, or return) of a call that was not admitted as a probe
\* changes neither the breaker state nor probeInFlight.
C4_OnlyProbeDecides ==
    [][ \A c \in Calls :
          (/\ state = "HALF_OPEN"
           /\ ~probe[c]
           /\ (ReportsSuccess(c) \/ ReportsFailure(c) \/ Returns(c)))
          => (state' = state /\ probeInFlight' = probeInFlight) ]_vars

C6_OneReportPerCall ==
    [][ /\ \A c \in Calls :
              (/\ pc[c] # "idle"
               /\ pc'[c] # pc[c]
               /\ ~ReportsSuccess(c)
               /\ ~ReportsFailure(c))
              => UNCHANGED breakerVars
        /\ last'.kind \in {"returned", "unavailable"}
              => last'.reported.success + last'.reported.failure = 1 ]_vars

\* C7: a call starts another attempt only out of a backoff; a backoff starts
\* only after an attempt that failed transiently (a status >= 500, or the
\* abort timer) and that was not attempt MAX_RETRIES + 1; a response with a
\* permanent status ends the call with a failure; no call makes more than
\* MAX_RETRIES + 1 attempts.
C7_BoundedRetries ==
    [][ \A c \in Calls :
          /\ (pc[c] # "sleep" /\ pc'[c] = "sleep")
                => /\ attempt[c] < MAX_RETRIES + 1
                   /\ \/ pc[c] = "text" /\ transient[c]
                      \/ pc[c] = "fetch" /\ now >= deadline[c]
          /\ (attempt[c] > 0 /\ attempt'[c] > attempt[c])
                => (pc[c] = "sleep" /\ attempt'[c] = attempt[c] + 1)
          /\ (pc[c] = "text" /\ ~transient[c] /\ pc'[c] # "text")
                => (ReportsFailure(c) /\ last'.attempts = attempt[c])
          /\ attempt'[c] <= MAX_RETRIES + 1 ]_vars

\* C7 witness: a call has just failed for good on its third attempt.
C7_Witness ==
    last.kind = "unavailable" /\ last.attempts = MAX_RETRIES + 1

\* C8: the backoff after attempt 1 lasts 100 ms and the one after attempt 2
\* lasts 200 ms, and the next attempt starts no earlier; the success of
\* attempt 3 adds no timestamp to the failure window; the call that returns
\* the payload has reported one success and no failure, and its return
\* leaves the failure window as it is.
C8_BackoffThenOneSuccess ==
    [][ \A c \in Calls :
          /\ (pc[c] # "sleep" /\ pc'[c] = "sleep")
                => /\ attempt[c] = 1 => deadline'[c] = now + 100
                   /\ attempt[c] = 2 => deadline'[c] = now + 200
          /\ (pc[c] = "sleep" /\ pc'[c] = "fetch") => now >= deadline[c]
          /\ (ReportsSuccess(c) /\ attempt[c] = MAX_RETRIES + 1)
                => /\ Len(failureTimes') <= Len(failureTimes)
                   /\ \A i \in DOMAIN failureTimes' :
                         \E j \in DOMAIN failureTimes : failureTimes'[i] = failureTimes[j]
          /\ Returns(c)
                => /\ last'.reported = [success |-> 1, failure |-> 0]
                   /\ failureTimes' = failureTimes ]_vars

\* C8 witness: a call has just returned its payload from its third attempt,
\* no earlier than 300 ms after the clock started.
C8_Witness ==
    /\ last.kind = "returned"
    /\ last.attempts = MAX_RETRIES + 1
    /\ now >= 300

\* C9: a call made while the breaker is OPEN and now < openUntil starts no
\* fetch, leaves the breaker variables unchanged, and is rejected with
\* Retry-After = the least number of seconds that covers openUntil - now.
C9_OpenRejection ==
    [][ (Starts /\ state = "OPEN" /\ now < openUntil)
          => /\ UNCHANGED breakerVars
             /\ pc' = pc
             /\ last'.kind = "rejectedOpen"
             /\ last'.retryAfter = SecondsCovering(openUntil - now) ]_vars

\* C9 witness: a call has just been rejected with a rounded-up Retry-After.
C9_Witness ==
    /\ last.kind = "rejectedOpen"
    /\ state = "OPEN"
    /\ (openUntil - now) % 1000 # 0
    /\ last.retryAfter * 1000 > openUntil - now

\* C10: for a user with 1 to smallEventSize events the handler dispatches one
\* single-identifier call per event, all at once; it awaits every one of them
\* whatever the others did; and it answers with exactly the events of the
\* calls that were fulfilled.
C10_PerItemFanOut ==
    (hpc \in {"fanout", "done"} /\ Len(events) \in 1..smallEventSize)
    => /\ mode = "item"
       /\ Len(fan) = Len(events)
       /\ \A k \in DOMAIN fan : fan[k].ids = <<events[k]>>
       /\ hpc = "fanout" <=> Pending(fan) # {}
       /\ hpc = "done"
             => /\ reply.kind = "ok"
                /\ Len(reply.body)
                      = Cardinality({k \in DOMAIN fan : fan[k].status = "fulfilled"})
                /\ {reply.body[i] : i \in DOMAIN reply.body}
                      = {Event(events[k]) : k \in {j \in DOMAIN fan : fan[j].status = "fulfilled"}}

\* C10 witness: identifiers 1, 2, 3 with the call for 2 rejected give the
\* events 1 and 3.
C10_Witness ==
    /\ events = <<1, 2, 3>>
    /\ hpc = "done"
    /\ fan[1].status = "fulfilled"
    /\ fan[2].status = "rejected"
    /\ fan[3].status = "fulfilled"
    /\ reply = [kind |-> "ok", body |-> <<Event(1), Event(3)>>]

\* The identifier lists of the calls of a fan-out, in dispatch order.
FanIds(f) == [k \in DOMAIN f |-> f[k].ids]

\* The least number of chunks of smallEventSize that cover n identifiers.
ChunksCovering(n) ==
    CHOOSE m \in 1..n : m * smallEventSize >= n /\ (m - 1) * smallEventSize < n

\* C11: for a user with more than smallEventSize events the handler
\* dispatches ceil(N / smallEventSize) batched calls; their identifier lists,
\* concatenated in order, are user.events; every list but the last holds
\* smallEventSize identifiers and the last holds 1 to smallEventSize (120
\* identifiers give 50, 50, 20); a user with exactly smallEventSize events
\* gets one call per event instead.
C11_Chunking ==
    /\ (hpc \in {"fanout", "done"} /\ Len(events) > smallEventSize)
          => /\ mode = "batch"
             /\ Len(fan) = ChunksCovering(Len(events))
             /\ Flat(FanIds(fan)) = events
             /\ \A k \in 1..(Len(fan) - 1) : Len(fan[k].ids) = smallEventSize
             /\ Len(fan[Len(fan)].ids) \in 1..smallEventSize
             /\ Len(events) = 120
                   => [k \in DOMAIN fan |-> Len(fan[k].ids)] = <<50, 50, 20>>
    /\ (hpc \in {"fanout", "done"} /\ Len(events) = smallEventSize)
          => (mode = "item" /\ Len(fan) = smallEventSize)

\* C11 witness: the three batched calls for 120 identifiers are pending.
C11_Witness ==
    /\ hpc = "fanout"
    /\ Len(events) = 120
    /\ mode = "batch"
    /\ [k \in DOMAIN fan |-> Len(fan[k].ids)] = <<50, 50, 20>>
    /\ Pending(fan) = {1, 2, 3}

\* C12: whatever the length of user.events, a fan-out in which some calls
\* were rejected still answers with a collection, and once every call has
\* settled that collection holds the items of the fulfilled calls.
C12_FailuresSwallowed ==
    (hpc = "done" /\ Len(fan) > 0)
    => /\ reply.kind = "ok"
       /\ Pending(fan) = {}
       /\ \A k \in DOMAIN fan :
             fan[k].status = "fulfilled"
             => IF mode = "item"
                THEN \E i \in DOMAIN reply.body : reply.body[i] = fan[k].value
                ELSE \A j \in DOMAIN fan[k].value :
                        Truthy(fan[k].value[j])
                        => \E i \in DOMAIN reply.body : reply.body[i] = fan[k].value[j]

\* C14 as stated: in every state every timestamp in failureTimes is no older
\* than FAILURE_WINDOW_MS before the current time.
C14_WindowAlwaysFresh ==
    \A i \in DOMAIN failureTimes : failureTimes[i] >= now - FAILURE_WINDOW_MS

\* C14, amended: the window is pruned when a call reports to the breaker
\* outside HALF_OPEN, not as time passes. After every final failure, and after
\* every success reported while the breaker is not HALF_OPEN, every stored
\* timestamp is no older than FAILURE_WINDOW_MS before the current time; no
\* other step changes failureTimes except a success in HALF_OPEN, which
\* empties it.
C14_PrunedOnReport ==
    [][ /\ (\E c \in Calls :
               \/ ReportsFailure(c)
               \/ (ReportsSuccess(c) /\ state # "HALF_OPEN"))
           => \A i \in DOMAIN failureTimes' :
                 failureTimes'[i] >= now' - FAILURE_WINDOW_MS
        /\ failureTimes' # failureTimes
           => \E c \in Calls : ReportsFailure(c) \/ ReportsSuccess(c) ]_vars

\* C14 witness: a final failure is reported later than FAILURE_WINDOW_MS
\* after the start; the window holds it and an older failure that lies
\* exactly on the cutoff.
C14_Witness ==
    /\ last.kind = "unavailable"
    /\ state = "CLOSED"
    /\ now > FAILURE_WINDOW_MS
    /\ failureTimes = <<now - FAILURE_WINDOW_MS, now>>

\* C15: a success reported while the breaker is not HALF_OPEN keeps exactly
\* the failure timestamps of the trailing FAILURE_WINDOW_MS and leaves state,
\* openUntil, nextProbeAt and probeInFlight alone; a timestamp that is still
\* in the window leaves failureTimes only by a success reported in HALF_OPEN.
C15_SuccessOnlyPrunes ==
    [][ /\ \A c \in Calls :
              (ReportsSuccess(c) /\ state # "HALF_OPEN")
              => /\ failureTimes' =
                       SubSeq(failureTimes,
                              Len(failureTimes) - Cardinality(InWindow(failureTimes, now)) + 1,
                              Len(failureTimes))
                 /\ UNCHANGED <<state, openUntil, nextProbeAt, probeInFlight>>
        /\ (\E i \in InWindow(failureTimes, now) :
               \A j \in DOMAIN failureTimes' : failureTimes'[j] # failureTimes[i])
           => (state = "HALF_OPEN" /\ \E c \in Calls : ReportsSuccess(c)) ]_vars

\* C15 witness: a call has reported its success to a CLOSED breaker whose
\* window still holds two failures.
C15_Witness ==
    /\ state = "CLOSED"
    /\ Len(failureTimes) = 2
    /\ \E c \in Calls : pc[c] = "json" /\ reported[c].success = 1

\* C16: a CLOSED breaker holds fewer than FAILURE_THRESHOLD failure
\* timestamps.
C16_ClosedBelowThreshold ==
    state = "CLOSED" => Len(failureTimes) < FAILURE_THRESHOLD

\* C16 witness: CLOSED, one failure short of the threshold, with two calls in
\* flight.
C16_Witness ==
    /\ state = "CLOSED"
    /\ Len(failureTimes) = FAILURE_THRESHOLD - 1
    /\ \A c \in Calls : Outstanding(c)

\* C17: probeInFlight is set only while the breaker is HALF_OPEN and a call
\* that was admitted as the probe is still in flight.
C17_FlagMeansProbe ==
    probeInFlight
    => /\ state = "HALF_OPEN"
       /\ \E c \in Calls : probe[c] /\ pc[c] # "idle"

\* C17 witness: the flag is set while the probe reads an error body and the
\* other call is in flight too.
C17_Witness ==
    /\ probeInFlight
    /\ \E c \in Calls : probe[c] /\ pc[c] = "text"
    /\ \E c \in Calls : ~probe[c] /\ pc[c] # "idle"

\* C18: a call rejected by the breaker, in OPEN or in HALF_OPEN, carries a
\* Retry-After of at least one second.
C18_RetryAfterPositive ==
    last.kind \in {"rejectedOpen", "rejectedHalfOpen"} => last.retryAfter >= 1

\* The worker invocations that runQueue counts as in flight: dispatched, and
\* their .finally reaction has not run.
Running == {i \in DOMAIN worker : worker[i].phase \notin {"new", "done"}}

\* C19: 0 <= inFlight <= concurrency; inFlight is the number of dispatched
\* invocations whose chain has not finished, so at most concurrency worker
\* promises are pending at once.
C19_BoundedInFlight ==
    qpc # "idle"
    => /\ 0 <= inFlight
       /\ inFlight <= concurrency
       /\ Cardinality(Running) = inFlight
       /\ Cardinality({i \in DOMAIN worker : worker[i].phase = "pending"}) <= concurrency

\* C19 witness: the queue is full while an item still waits.
C19_Witness ==
    /\ qpc = "running"
    /\ concurrency = 2
    /\ inFlight = concurrency
    /\ idx < Len(items)
    /\ \E i \in DOMAIN worker : worker[i].phase = "done"

\* The items whose worker settled with the outcome o.
SettledAs(o) == {i \in DOMAIN worker : worker[i].settled = o}

\* C20: a running runQueue resolves, given that every worker settles; no
\* item's worker is invoked twice; when it resolves every item's worker was
\* invoked once and has settled, ok is the number of fulfilled and fail the
\* number of rejected workers, so ok + fail = items.length; with no items it
\* resolves in the call itself with ok = fail = 0.
C20_ResolvesWithTally ==
    /\ [](\A i \in DOMAIN invoked : invoked[i] <= 1)
    /\ [](qpc = "resolved"
          => /\ \A i \in DOMAIN items : invoked[i] = 1 /\ worker[i].phase = "done"
             /\ resolution.ok = Cardinality(SettledAs("fulfilled"))
             /\ resolution.fail = Cardinality(SettledAs("rejected"))
             /\ resolution.ok + resolution.fail = Len(items))
    /\ []((qpc # "idle" /\ Len(items) = 0)
          => (qpc = "resolved" /\ resolution.ok = 0 /\ resolution.fail = 0))
    /\ (qpc = "running") ~> (qpc = "resolved")

\* C20 witness: three items at concurrency 2 resolved with one rejected and
\* two fulfilled workers.
C20_Witness ==
    /\ qpc = "resolved"
    /\ Len(items) = 3
    /\ concurrency = 2
    /\ resolution.ok = 2
    /\ resolution.fail = 1
    /\ results = <<"value", "error", "value">>

\* C13: once upstream has stopped failing, with the breaker OPEN or
\* HALF_OPEN, the breaker becomes CLOSED and stays CLOSED, and from then on
\* no call is rejected.
C13_Recovers ==
(healed # NotHealed)
    ~> [](state = "CLOSED" /\ last.kind \notin {"rejectedOpen", "rejectedHalfOpen"})

\* C13 witness: upstream stopped failing while the breaker was OPEN; the one
\* call admitted since was the probe, it has returned and the breaker is
\* CLOSED.
C13_Witness ==
    /\ healed.from = "OPEN"
    /\ healed.admitted = 1
    /\ state = "CLOSED"
    /\ last.kind = "returned"
    /\ \A c \in Calls : pc[c] = "idle"

====
